---- MODULE Spec2Model ----
(***************************************************************************)
(* Calendar-analog matching engine of autots/tools/seasonal.py:            *)
(* date_part, create_seasonality_feature, seasonal_int,                    *)
(* seasonal_window_match and seasonal_independent_match.                   *)
(*                                                                         *)
(* A timestamp is a day number (days since 1970-01-01, midnight); a        *)
(* DTindex is a strictly increasing sequence of days.                      *)
(* Python indices are 0-based: every index VALUE kept in the state         *)
(* (min_idx, test) is the program's 0-based value, while positions of TLA+ *)
(* sequences are 1-based.                                                  *)
(* Scores are kept exactly, as the integer numerator of the program's      *)
(* float over a denominator that is the same for all candidates of one     *)
(* call (ScoreDen), so comparisons of scores are those of the program.     *)
(***************************************************************************)
EXTENDS Integers, Sequences, FiniteSets, TLC

VARIABLES
    fn,               \* the function that is called
    DTindex,          \* historical timestamps
    DTindex_future,   \* future timestamps (seasonal_independent_match)
    k,
    window_size,
    forecast_length,
    datepart_method,
    distance_metric,
    full_sort,
    nan_array,        \* mask of historical rows (seasonal_independent_match), or None
    pc,               \* "call" before the call, "done" returned, "raised" exception
    min_idx,          \* the selected candidates (local of the matchers)
    test,             \* returned offsets (or the value date_part, create_seasonality_feature
                      \* or seasonal_int returns)
    scores,           \* returned score matrix
    t_arg,            \* create_seasonality_feature: its argument t (time values), or None
    history_days,     \* create_seasonality_feature: <<days>>, or None
    columns,          \* column names of the returned DataFrame (date_part)
    frames            \* call stack of seasonal_int, innermost call last

vars == <<fn, DTindex, DTindex_future, k, window_size, forecast_length,
          datepart_method, distance_metric, full_sort, nan_array, t_arg, history_days,
          pc, min_idx, test, scores, columns, frames>>

args == <<fn, DTindex, DTindex_future, k, window_size, forecast_length,
          datepart_method, distance_metric, full_sort, nan_array, t_arg, history_days>>

----------------------------------------------------------------------------
(* Bounds of the model *)
MaxN == 5          \* longest history drawn with every scheme
LongN == 7         \* one longer history, drawn with the schemes of LongMethods
MaxK == 6          \* largest k
MaxW == 2          \* largest window_size
MaxFL == 2         \* largest forecast_length / future length
MaxDepth == 3      \* most calls of seasonal_int that have not returned

\* first timestamps of the histories: 2024-01-26 (a Friday), 2024-01-30 (a Tuesday)
Starts == {19748, 19752}

----------------------------------------------------------------------------
(* Generic helpers *)
Range(s) == {s[i] : i \in DOMAIN s}

RECURSIVE SumSeq(_)
SumSeq(s) == IF s = <<>> THEN 0 ELSE Head(s) + SumSeq(Tail(s))

RECURSIVE MaxSeq(_)
MaxSeq(s) == IF Len(s) = 1 THEN s[1]
             ELSE LET m == MaxSeq(Tail(s)) IN IF s[1] > m THEN s[1] ELSE m

Min2(a, b) == IF a < b THEN a ELSE b

\* Python's None
None == <<>>

----------------------------------------------------------------------------
(* pandas DatetimeIndex calendar parts of a day number *)
civil(d) ==
    LET z == d + 719468
        era == z \div 146097
        doe == z - era * 146097
        yoe == (doe - doe \div 1460 + doe \div 36524 - doe \div 146096) \div 365
        doy == doe - (365 * yoe + yoe \div 4 - yoe \div 100)
        mp == (5 * doy + 2) \div 153
        dd == doy - (153 * mp + 2) \div 5 + 1
        mm == IF mp < 10 THEN mp + 3 ELSE mp - 9
        yy == yoe + era * 400 + (IF mm <= 2 THEN 1 ELSE 0)
    IN [year |-> yy, month |-> mm, day |-> dd]

year(d) == civil(d).year
month(d) == civil(d).month
day(d) == civil(d).day
weekday(d) == (d + 3) % 7          \* Monday = 0
weekend(d) == IF weekday(d) > 4 THEN 1 ELSE 0
weekdayofmonth(d) == (day(d) - 1) \div 7 + 1

\* mutant: pd.get_dummies without the fixed categories, which makes one column
\* per value that occurs in the data (one timestamp: one column)
get_dummies_observed(v, lo, hi) == <<1>>

\* pd.get_dummies(pd.Categorical(v, categories=lo..hi)): one column per
\* category of the fixed domain, 1 where the value is that category
get_dummies(v, lo, hi) == [i \in 1..(hi - lo + 1) |-> IF v = lo + i - 1 THEN 1 ELSE 0]

----------------------------------------------------------------------------
(* date_part: scheme dispatch *)
date_part_methods == {"recurring", "simple", "expanded", "simple_2", "simple_3",
                      "lunar_phase", "simple_binarized", "simple_binarized_poly",
                      "expanded_binarized", "common_fourier", "common_fourier_rw"}

datepart_components == {"dayofweek", "month", "day", "weekend", "weekdayofmonth",
                        "hour", "daysinmonth", "quarter", "dayofyear",
                        "weekdaymonthofyear", "dayofmonthofyear", "is_month_end",
                        "is_month_start", "is_quarter_start", "is_quarter_end",
                        "days_from_epoch"}

\* scheme names that are in neither list, kept to exercise the dispatch
UnknownMethods == {"foo", "foo_poly"}

\* Python's `"_poly" in str(method)` and method.replace("_poly", "") on the
\* names of the model
has_poly(method) == method \in {"simple_binarized_poly", "simple_poly", "simple_2_poly", "foo_poly"}

strip_poly(method) ==
    CASE method = "simple_binarized_poly" -> "simple_binarized"
      [] method = "simple_poly" -> "simple"
      [] method = "simple_2_poly" -> "simple_2"
      [] method = "foo_poly" -> "foo"
      [] OTHER -> method

\* Python's `"simple_binarized" in method` (method contains the literal)
contains_simple_binarized(method) == method \in {"simple_binarized", "simple_binarized_poly"}

\* Python's `method in "expanded_binarized"` (method is a substring of the literal)
in_expanded_binarized(method) == method \in {"expanded_binarized", "expanded", "binarized"}

\* the elif chain of date_part for a string method (after the _poly strip):
\* the branch that builds date_part_df
date_part_branch(method) ==
    CASE method \in datepart_components -> "create_datepart_components"
      [] method = "recurring" -> "recurring"
      [] method \in {"simple_2", "simple_2_poly"} -> "simple_2"
      [] method \in {"simple_3", "lunar_phase"} -> "simple_3"
      [] contains_simple_binarized(method) -> "simple_binarized"
      [] in_expanded_binarized(method) -> "expanded_binarized"
      [] method \in {"common_fourier", "common_fourier_rw"} -> "common_fourier"
      [] OTHER -> "simple"

quarter(d) == (month(d) - 1) \div 3 + 1
hour(d) == 0                       \* timestamps are at midnight
dayofyear(d) == d - (CHOOSE j \in (d - 366)..d : month(j) = 1 /\ day(j) = 1 /\ year(j) = year(d)) + 1
midyear(d) == IF dayofyear(d) > 74 /\ dayofyear(d) < 258 THEN 1 ELSE 0

\* DTindex.is_month_end and the other boundary flags (booleans), daysinmonth,
\* the ISO week number
is_month_end(d) == month(d + 1) # month(d)
is_month_start(d) == day(d) = 1
is_quarter_end(d) == is_month_end(d) /\ month(d) \in {3, 6, 9, 12}
is_quarter_start(d) == is_month_start(d) /\ month(d) \in {1, 4, 7, 10}
is_year_end(d) == month(d) = 12 /\ day(d) = 31
daysinmonth(d) == day(CHOOSE j \in d..(d + 30) : month(j) = month(d) /\ month(j + 1) # month(d))
isocalendar_week(d) == (dayofyear(d - weekday(d) + 3) - 1) \div 7 + 1

\* (x).astype(int) of a boolean
astype_int(b) == IF b THEN 1 ELSE 0

\* days from 1970-01-01 to 2000-01-01 (pd.Timestamp('2000-01-01'), and
\* 946684800000000000 ns)
days_to_2000 == 10957

\* pd.date_range("2020-01-01", "2021-01-01", freq='D'): 367 days from day
\* number 18262
cat_index == [i \in 1..367 |-> 18262 + i - 1]

\* Index.unique(): the values in order of first appearance (firsts: the
\* positions of the first appearances; ranked: each with its rank among them)
unique(seq) ==
    CHOOSE u \in
      { [r \in 1..Cardinality(ranked) |-> seq[(CHOOSE p \in ranked : p[1] = r)[2]]] :
          ranked \in { {<<Cardinality({j \in firsts : j <= i}), i>> : i \in firsts} :
                         firsts \in { {i \in DOMAIN seq :
                                         \A j \in 1..(i - 1) : seq[j] # seq[i]} } } } : TRUE

\* str(a) + str(b) for a positive a and b in 1..99, as the number the
\* concatenated digits spell (the strings are equal exactly when the numbers are)
str_concat(a, b) == IF b < 10 THEN a * 10 + b ELSE a * 100 + b

\* "weekdaymonthofyear": monweek is the week of the month followed by the
\* weekday, capped at 50; the category string is the month followed by monweek
monweek(d) == Min2(str_concat(weekdayofmonth(d), weekday(d)), 50)
weekdaymonthofyear_strs(d) == str_concat(month(d), monweek(d))
weekdaymonthofyear_cats == unique([i \in DOMAIN cat_index |-> weekdaymonthofyear_strs(cat_index[i])])

\* "dayofmonthofyear": the category string is the month followed by the day
dayofmonthofyear_strs(d) == str_concat(month(d), day(d))
dayofmonthofyear_cats == unique([i \in DOMAIN cat_index |-> dayofmonthofyear_strs(cat_index[i])])

\* the code of a value in pd.Categorical(values, categories=cats): the
\* position of the value in cats, or 0 (pandas: -1, NaN) when it is not there
categorical_code(x, cats) ==
    IF \E i \in DOMAIN cats : cats[i] = x THEN CHOOSE i \in DOMAIN cats : cats[i] = x ELSE 0

\* create_datepart_components: the feature row of one timestamp
create_datepart_components(d, seasonality) ==
    CASE seasonality = "dayofweek" -> get_dummies(weekday(d), 0, 6)
      [] seasonality = "month" -> get_dummies(month(d), 1, 12)
      [] seasonality = "day" -> get_dummies(day(d), 1, 31)
      [] seasonality = "weekend" -> <<weekend(d)>>
      [] seasonality = "weekdayofmonth" -> get_dummies(weekdayofmonth(d), 1, 5)
      [] seasonality = "weekdaymonthofyear" ->
           get_dummies(categorical_code(weekdaymonthofyear_strs(d), weekdaymonthofyear_cats),
                       1, Len(weekdaymonthofyear_cats))
      [] seasonality = "dayofmonthofyear" ->
           get_dummies(categorical_code(dayofmonthofyear_strs(d), dayofmonthofyear_cats),
                       1, Len(dayofmonthofyear_cats))
      [] seasonality = "hour" -> get_dummies(hour(d), 1, 24)
      [] seasonality = "daysinmonth" -> <<daysinmonth(d)>>
      [] seasonality = "quarter" -> get_dummies(quarter(d), 1, 4)
      [] seasonality = "dayofyear" -> get_dummies(dayofyear(d), 1, 366)
      [] seasonality = "is_month_end" -> <<is_month_end(d)>>
      [] seasonality = "is_month_start" -> <<is_month_start(d)>>
      [] seasonality = "is_quarter_start" -> <<is_quarter_start(d)>>
      [] seasonality = "is_quarter_end" -> <<is_quarter_end(d)>>
      [] seasonality = "days_from_epoch" -> <<d - days_to_2000>>

\* numpy dtype of the feature matrix (to_numpy of the DataFrame)
components_dtype(seasonality) ==
    CASE seasonality \in {"dayofweek", "month", "day", "quarter", "hour"} -> "uint8"
      [] seasonality = "dayofyear" -> "uint16"
      [] seasonality \in {"weekend", "daysinmonth", "days_from_epoch"} -> "int64"
      [] seasonality \in {"weekdayofmonth", "weekdaymonthofyear", "dayofmonthofyear"} -> "float64"
      [] OTHER -> "bool"

\* PolynomialFeatures(2, include_bias=False): the columns, then the products
\* of every pair of columns i <= j in lexicographic order
RECURSIVE poly_pairs(_, _, _)
poly_pairs(row, i, j) ==
    IF i > Len(row) THEN <<>>
    ELSE IF j > Len(row) THEN poly_pairs(row, i + 1, i + 1)
    ELSE <<row[i] * row[j]>> \o poly_pairs(row, i, j + 1)

PolynomialFeatures(row) == row \o poly_pairs(row, 1, 1)

\* Features that are not whole numbers are kept as terms: a tuple that names
\* the function and its arguments.
\* DTindex.to_julian_date(): the day number + 2440587.5
to_julian_date(d) == <<"julian_date_halves", 2 * d + 4881175>>

\* origin_ts = "2030-01-01" as a day number
origin_ts == 21915

\* The periods of the Fourier series, in quarter days: 365.25, 7, 28, 1461
\* days, and 24, 168, 8766 hours (time in hours there)
FourierPeriods == [yearly |-> 1461, weekly |-> 28, lunar |-> 112, quadrennial |-> 5844,
                   h_daily |-> 96, h_weekly |-> 672, h_yearly |-> 35064]

\* fourier_series(t, p, n) at one t: cos(2 pi j t / p) for j = 1..n, then
\* sin(2 pi j t / p) for j = 1..n
fourier_series(t, p, n) ==
    [c \in 1..(2 * n) |-> IF c <= n THEN <<"cos", c, t, p>> ELSE <<"sin", c - n, t, p>>]

\* the elementwise product of two blocks of the same width
multiply(x, y) == [c \in DOMAIN x |-> <<"mul", x[c], y[c]>>]

\* (DTmax - DTmin).days
span_days(DT) == DT[Len(DT)] - DT[1]

\* the numeric schemes (a Fourier period given as a number), by name
NumericMethods == {"7", "365.25"}

\* isinstance(method, (int, float))
is_number(method) == method \in NumericMethods

\* fourier_df(DTindex, seasonality, order=6) at one timestamp: the period is
\* seasonality / history_days
fourier_df(DT, d, seasonality) ==
    fourier_series(d - origin_ts, <<"div", seasonality, span_days(DT)>>, 6)

\* the default of fourier_df's parameter `order`
fourier_df_order == 10

\* fourier_df(DTindex, seasonality, order, t, history_days) at position i:
\* history_days and t default to the span and the days from origin_ts
history_days_of(DT, hd) == IF hd = None THEN span_days(DT) ELSE hd[1]

fourier_df_at(DT, i, seasonality, order, tt, hd) ==
    fourier_series(IF tt = None THEN DT[i] - origin_ts ELSE tt[i],
                   <<"div", seasonality, history_days_of(DT, hd)>>, order)

\* seasonality / history_days divides by zero (ZeroDivisionError) when all
\* timestamps are the same day, so for every single timestamp
fourier_df_raises(DT) == span_days(DT) = 0

\* mutant: the ratio is the span over the length, for every length
seasonal_ratio_branch_span(DT) ==
    LET num == span_days(DT)
        den == Len(DT)
    IN CASE 4 * num < 3 * den -> "hourly"
         [] 2 * num < 7 * den -> "daily"
         [] num < 12 * den -> "weekly"
         [] num < 182 * den -> "monthly"
         [] OTHER -> "yearly"

\* the branch of common_fourier that seasonal_ratio selects:
\* seasonal_ratio = 1 for one timestamp, else ((DTmax - DTmin).days + 1) / len;
\* compared with 0.75, 3.5, 12 and 182
seasonal_ratio_branch(DT) ==
    LET num == IF Len(DT) <= 1 THEN 1 ELSE span_days(DT) + 1
        den == IF Len(DT) <= 1 THEN 1 ELSE Len(DT)
    IN CASE 4 * num < 3 * den -> "hourly"
         [] 2 * num < 7 * den -> "daily"
         [] num < 12 * den -> "weekly"
         [] num < 182 * den -> "monthly"
         [] OTHER -> "yearly"

\* the row of common_fourier for timestamp d of DTindex DT
common_fourier(DT, d) ==
    LET branch == seasonal_ratio_branch(DT)
        t == d - origin_ts
        th == t * 24
        P == FourierPeriods
    IN CASE branch = "hourly" ->
              fourier_series(th, P.h_yearly, 10) \o fourier_series(th, P.h_daily, 3)
                \o fourier_series(th, P.h_weekly, 5)
                \o multiply(fourier_series(th, P.h_weekly, 5), fourier_series(th, P.h_daily, 5))
                \o multiply(fourier_series(th, P.h_weekly, 3), fourier_series(th, P.h_yearly, 3))
         [] branch = "daily" ->
              fourier_series(t, P.yearly, 10) \o fourier_series(t, P.weekly, 3)
                \o multiply(fourier_series(t, P.weekly, 5), fourier_series(t, P.yearly, 5))
         [] branch = "weekly" ->
              fourier_series(t, P.yearly, 10) \o fourier_series(t, P.lunar, 4)
         [] branch = "monthly" ->
              fourier_series(t, P.yearly, 3) \o fourier_series(t, P.quadrennial, 10)
         [] branch = "yearly" -> fourier_series(t, P.quadrennial, 10)

\* the columns the else branch adds when method == 'expanded'
expanded_extras(d) ==
    <<hour(d), isocalendar_week(d), quarter(d), dayofyear(d), midyear(d), weekend(d),
      weekdayofmonth(d), astype_int(is_month_end(d)), astype_int(is_month_start(d)),
      astype_int(is_quarter_end(d)), astype_int(is_year_end(d)), daysinmonth(d),
      <<"days_in_ns", d - days_to_2000>>, astype_int(year(d) % 4 = 0)>>

\* the feature row of timestamp d of DTindex DT under a scheme given by name
date_part_row_of(DT, d, method0) ==
    LET method == IF has_poly(method0) THEN strip_poly(method0) ELSE method0
        branch == date_part_branch(method)
        base == CASE is_number(method) -> fourier_df(DT, d, method)
                  [] branch = "create_datepart_components" -> create_datepart_components(d, method)
                  [] branch = "recurring" ->
                       <<month(d), day(d), weekday(d), weekend(d), hour(d), quarter(d), midyear(d)>>
                  [] branch = "simple_2" ->
                       <<month(d), day(d), weekday(d), weekend(d), 864 * d>>
                  [] branch = "simple_3" ->
                       <<weekend(d), quarter(d), to_julian_date(d)>>
                         \o get_dummies(month(d), 1, 12) \o get_dummies(weekday(d), 0, 6)
                         \o (IF method = "lunar_phase" THEN <<<<"moon_phase", d>>>> ELSE <<>>)
                  [] branch = "simple_binarized" ->
                       <<day(d), weekend(d), to_julian_date(d)>>
                         \o get_dummies(month(d), 1, 12) \o get_dummies(weekday(d), 0, 6)
                  [] branch = "expanded_binarized" ->
                       <<weekend(d), quarter(d), to_julian_date(d)>>
                         \o get_dummies(month(d), 1, 12) \o get_dummies(weekday(d), 0, 6)
                         \o get_dummies(day(d), 1, 31) \o get_dummies(weekdayofmonth(d), 1, 5)
                  [] branch = "common_fourier" ->
                       common_fourier(DT, d)
                         \o (IF method = "common_fourier_rw"
                             THEN <<<<"int_pow_0.65", to_julian_date(d)>>>> ELSE <<>>)
                  [] branch = "simple" ->
                       <<year(d), month(d), day(d), weekday(d)>>
                         \o (IF method = "expanded" THEN expanded_extras(d) ELSE <<>>)
    IN IF has_poly(method0) THEN PolynomialFeatures(base) ELSE base

\* the feature row of one timestamp under a scheme whose row depends on that
\* timestamp alone
date_part_row(d, method0) == date_part_row_of(<<d>>, d, method0)

date_part_dtype(method0) ==
    LET method == IF has_poly(method0) THEN strip_poly(method0) ELSE method0
        branch == date_part_branch(method)
    IN IF has_poly(method0) \/ is_number(method) THEN "float64"
       ELSE IF branch = "create_datepart_components" THEN components_dtype(method)
       ELSE IF branch \in {"recurring", "simple"} THEN "int64"
       ELSE "float64"

\* the column labels prefix + str(x) for x = lo..hi
labels(prefix, lo, hi) == [i \in 1..(hi - lo + 1) |-> prefix \o ToString(lo + i - 1)]

\* the column labels prefix + str(cat) of a list of categories
cat_labels(prefix, cats) == [i \in DOMAIN cats |-> prefix \o ToString(cats[i])]

\* the column names create_datepart_components gives (the rename of the
\* get_dummies columns, or the one named column; days_from_epoch is an unnamed
\* Index, labelled 0 once it is a column)
components_columns(seasonality) ==
    CASE seasonality = "dayofweek" -> labels("dayofweek_", 0, 6)
      [] seasonality = "month" -> labels("month_", 1, 12)
      [] seasonality = "day" -> labels("day_", 1, 31)
      [] seasonality = "weekdayofmonth" -> labels("weekdayofmonth_", 1, 5)
      [] seasonality = "weekdaymonthofyear" -> cat_labels("weekdaymonthofyear_", weekdaymonthofyear_cats)
      [] seasonality = "dayofmonthofyear" -> cat_labels("dayofmonthofyear_", dayofmonthofyear_cats)
      [] seasonality = "hour" -> labels("hour_", 1, 24)
      [] seasonality = "quarter" -> labels("quarter_", 1, 4)
      [] seasonality = "dayofyear" -> labels("dayofyear_", 1, 366)
      [] seasonality = "days_from_epoch" -> <<"0">>
      [] OTHER -> <<seasonality>>

\* the numeric scheme as Python prints it in f"seasonality{seasonality}_"
fourier_df_columns(seasonality, order) ==
    labels("seasonality" \o seasonality \o "_", 0, 2 * order - 1)

\* the column names of date_part for a scheme given by name
date_part_columns_of(DT, method0) ==
    LET method == IF has_poly(method0) THEN strip_poly(method0) ELSE method0
        branch == date_part_branch(method)
        month_weekday == labels("month_", 1, 12) \o labels("weekday_", 0, 6)
        base == CASE is_number(method) -> fourier_df_columns(method, 6)
                  [] branch = "create_datepart_components" -> components_columns(method)
                  [] branch = "recurring" ->
                       <<"month", "day", "weekday", "weekend", "hour", "quarter", "midyear">>
                  [] branch = "simple_2" -> <<"month", "day", "weekday", "weekend", "epoch">>
                  [] branch = "simple_3" ->
                       <<"weekend", "quarter", "epoch">> \o month_weekday
                         \o (IF method = "lunar_phase" THEN <<"phase">> ELSE <<>>)
                  [] branch = "simple_binarized" -> <<"day", "weekend", "epoch">> \o month_weekday
                  [] branch = "expanded_binarized" ->
                       <<"weekend", "quarter", "epoch">> \o month_weekday
                         \o labels("day_", 1, 31) \o labels("weekdayofmonth_", 1, 5)
                  [] branch = "common_fourier" ->
                       labels("seasonalitycommonfourier_", 0, Len(common_fourier(DT, DT[1])) - 1)
                         \o (IF method = "common_fourier_rw" THEN <<"epoch">> ELSE <<>>)
                  [] branch = "simple" ->
                       <<"year", "month", "day", "weekday">>
                         \o (IF method = "expanded"
                             THEN <<"hour", "week", "quarter", "dayofyear", "midyear", "weekend",
                                    "weekdayofmonth", "month_end", "month_start", "quarter_end",
                                    "year_end", "daysinmonth", "epoch", "us_election_year">>
                             ELSE <<>>)
    IN IF has_poly(method0)
       THEN labels("dp", 0, Len(PolynomialFeatures([i \in DOMAIN base |-> 0])) - 1)
       ELSE base

\* the list schemes, by name: the lists random_datepart draws and lists whose
\* sub-schemes share column names
ListMethods == {"[7, 365.25]", "[dayofweek, 365.25]", "[weekdayofmonth, common_fourier]",
                "[simple, recurring]", "[recurring, weekend]", "[month, month]"}

\* isinstance(method, list)
is_list(method) == method \in ListMethods

\* the items of a list scheme
list_items(method) ==
    CASE method = "[7, 365.25]" -> <<"7", "365.25">>
      [] method = "[dayofweek, 365.25]" -> <<"dayofweek", "365.25">>
      [] method = "[weekdayofmonth, common_fourier]" -> <<"weekdayofmonth", "common_fourier">>
      [] method = "[simple, recurring]" -> <<"simple", "recurring">>
      [] method = "[recurring, weekend]" -> <<"recurring", "weekend">>
      [] method = "[month, month]" -> <<"month", "month">>

\* pd.concat(all_seas, axis=1) of one row (or of the column names) of every
\* sub-scheme, in list order
RECURSIVE concat_axis1(_)
concat_axis1(blocks) ==
    IF blocks = <<>> THEN <<>> ELSE blocks[1] \o concat_axis1(Tail(blocks))

\* columns.duplicated() keeping only the last occurrence of a name
duplicated_keep_last(names) ==
    [i \in DOMAIN names |-> \E j \in DOMAIN names : j > i /\ names[j] = names[i]]

\* columns.duplicated(): TRUE at every column whose name occurred earlier
duplicated(names) ==
    [i \in DOMAIN names |-> \E j \in 1..(i - 1) : names[j] = names[i]]

\* df.loc[:, ~mask] on one row (or on the column names)
RECURSIVE loc_not(_, _)
loc_not(row, mask) ==
    IF row = <<>> THEN <<>>
    ELSE (IF mask[1] THEN <<>> ELSE <<row[1]>>) \o loc_not(Tail(row), Tail(mask))

\* the one element of a set of one element (used to name a value once)
the(S) == CHOOSE x \in S : TRUE

\* the column names of a list scheme before the duplicates go
list_columns_all(DT, method) ==
    the({concat_axis1([s \in DOMAIN items |-> date_part_columns_of(DT, items[s])]) :
           items \in {list_items(method)}})

\* the column names of the DataFrame date_part returns
date_part_columns(DT, method) ==
    IF is_list(method)
    THEN the({loc_not(all, duplicated(all)) : all \in {list_columns_all(DT, method)}})
    ELSE date_part_columns_of(DT, method)

\* the row of timestamp d under a list scheme: the rows of the sub-schemes
\* side by side, without the columns whose name occurred earlier
date_part_list_row(DT, d, method) ==
    the({loc_not(concat_axis1([s \in DOMAIN items |-> date_part_row_of(DT, d, items[s])]),
                 duplicated(all)) :
           items \in {list_items(method)}, all \in {list_columns_all(DT, method)}})

\* date_part(DTindex, method) for a scheme that is not a list: the feature
\* matrix, one row per timestamp. No branch of the chain raises: a name that
\* matches nothing falls into the final else and is encoded as "simple".
date_part(DT, method) == [i \in 1..Len(DT) |-> date_part_row_of(DT, DT[i], method)]

\* date_part(DTindex, method) for a list: date_part of every item, side by
\* side, without the duplicate columns
date_part_list(DT, method) == [i \in 1..Len(DT) |-> date_part_list_row(DT, DT[i], method)]

\* the one exception date_part lets out: the division of fourier_df, also
\* when the numeric scheme is an item of a list
date_part_raises(DT, method) ==
    IF is_list(method)
    THEN \E s \in DOMAIN list_items(method) :
            is_number(list_items(method)[s]) /\ fourier_df_raises(DT)
    ELSE is_number(method) /\ fourier_df_raises(DT)

\* the schemes whose branch is modelled down to the feature values
ModelledMethods == {"dayofweek", "month", "day", "weekend", "weekdayofmonth", "quarter",
                    "recurring", "simple", "simple_poly"} \cup UnknownMethods

\* the schemes drawn for date_part called on its own
DatePartMethods ==
    ModelledMethods \cup NumericMethods \cup (date_part_methods \ {"simple_binarized_poly"})
      \cup {"hour", "dayofyear", "daysinmonth", "is_month_end", "is_month_start",
             "is_quarter_start", "is_quarter_end", "days_from_epoch",
             "weekdaymonthofyear", "dayofmonthofyear"}
      \cup ListMethods

----------------------------------------------------------------------------
(* Distance metrics: the reduction over the last axis of |a - b| *)
min_k == 5

RecognizedMetrics == {"mae", "canberra", "minkowski", "euclidean", "chebyshev",
                      "mqae", "mse"}

\* The two float values that are not numbers, kept as whole numbers above
\* every finite score, in the order numpy sorts them (nan last).
Inf == 2000000000
NaN == 2100000000

is_finite(x) == x # Inf /\ x # NaN

\* mutant: the difference is taken as a sum
np_add(dtype, a, b) ==
    IF a = NaN \/ b = NaN THEN NaN
    ELSE IF a = Inf \/ b = Inf THEN Inf
    ELSE IF dtype = "uint8" THEN (a + b) % 256 ELSE a + b

\* a - b in the dtype of the feature matrix: uint8 arithmetic wraps.
\* inf - inf is nan; the sign of an infinite difference is not kept, every
\* use takes its absolute value or its square.
np_subtract(dtype, a, b) ==
    IF a = NaN \/ b = NaN \/ (a = Inf /\ b = Inf) THEN NaN
    ELSE IF a = Inf \/ b = Inf THEN Inf
    ELSE IF dtype = "uint8" THEN (a - b) % 256 ELSE a - b

np_abs(x) == IF x < 0 THEN -x ELSE x

\* x ** 2 in the dtype of the feature matrix
np_square(dtype, x) ==
    IF ~is_finite(x) THEN x
    ELSE IF dtype = "uint8" THEN (x * x) % 256 ELSE x * x

\* np.abs(a - b), elementwise
abs_diff(dtype, a, b) == [i \in DOMAIN a |-> np_abs(np_subtract(dtype, a[i], b[i]))]

\* (a - b) ** 2, elementwise
sq_diff(dtype, a, b) == [i \in DOMAIN a |-> np_square(dtype, np_subtract(dtype, a[i], b[i]))]

\* np.abs(a) + np.abs(b), before the zeros are replaced
abs_sum(dtype, a, b) ==
    IF a = NaN \/ b = NaN THEN NaN
    ELSE IF a = Inf \/ b = Inf THEN Inf
    ELSE IF dtype = "uint8" THEN (np_abs(a) + np_abs(b)) % 256 ELSE np_abs(a) + np_abs(b)

\* mutant: the zeros of the divisor are left in place
divisor_unclamped(dtype, a, b) == abs_sum(dtype, a, b)

\* np.abs(a) + np.abs(b) with zeros replaced by 1 (canberra)
divisor(dtype, a, b) ==
    LET dv == abs_sum(dtype, a, b)
    IN IF dv = 0 THEN 1 ELSE dv

\* x / dv of floats: inf / inf and 0 / 0 are nan, x / 0 is inf
np_divide(x, dv) ==
    IF x = NaN \/ dv = NaN \/ (x = Inf /\ dv = Inf) \/ (x = 0 /\ dv = 0) THEN NaN
    ELSE IF x = Inf \/ dv = 0 THEN Inf
    ELSE IF dv = Inf THEN 0
    ELSE x \div dv

\* np.sum / the numerator of np.mean: nan if a term is nan, else inf if a
\* term is inf
np_sum(s) ==
    IF NaN \in Range(s) THEN NaN
    ELSE IF Inf \in Range(s) THEN Inf
    ELSE SumSeq(s)

\* np.max (nan if an element is nan)
np_max(s) == MaxSeq(s)

\* floor(SqrtScale * sqrt(n)), by bisection on lo <= root < hi, for the sums
\* of squares of the model (n <= 2147, so that no product exceeds 2^31)
SqrtScale == 1000

RECURSIVE isqrt_between(_, _, _)
isqrt_between(n, lo, hi) ==
    IF hi - lo <= 1 THEN lo
    ELSE LET mid == (lo + hi) \div 2
         IN IF mid * mid <= n THEN isqrt_between(n, mid, hi) ELSE isqrt_between(n, lo, mid)

np_sqrt(n) ==
    IF ~is_finite(n) THEN n
    ELSE isqrt_between(n * SqrtScale * SqrtScale, 0, Min2(SqrtScale * (n + 1) + 1, 46341))

\* mutant: the slice keeps the m largest elements
RECURSIVE np_partition_tail(_, _)
np_partition_tail(s, m) ==
    IF m = 0 \/ s = <<>> THEN <<>>
    ELSE LET i == CHOOSE x \in DOMAIN s : \A y \in DOMAIN s : s[x] >= s[y]
         IN <<s[i]>> \o np_partition_tail([x \in 1..(Len(s) - 1) |->
                                              IF x < i THEN s[x] ELSE s[x + 1]], m - 1)

\* np.partition(ae, m)[..., :m]: the m smallest elements (nan sorts last)
RECURSIVE np_partition_head(_, _)
np_partition_head(s, m) ==
    IF m = 0 \/ s = <<>> THEN <<>>
    ELSE LET i == CHOOSE x \in DOMAIN s : \A y \in DOMAIN s : s[x] <= s[y]
         IN <<s[i]>> \o np_partition_head([x \in 1..(Len(s) - 1) |->
                                              IF x < i THEN s[x] ELSE s[x + 1]], m - 1)

\* the sum of the m smallest elements of a sequence
sum_smallest(s, m) == np_sum(np_partition_head(s, m))

\* qi of mqae: int(n * 0.85), at least 1
mqae_qi(n) == IF (n * 85) \div 100 > 1 THEN (n * 85) \div 100 ELSE 1

\* The score of sequence a against sequence b (same length n), reduced over
\* their axis.  The value kept is an integer: the program's float times
\* ScoreDen(metric, n); its comparisons are those of the program's floats.
\* canberra is kept only for 0/1 features, where every quotient is whole.
distance(metric, dtype, a, b) ==
    CASE metric = "mae" -> np_sum(abs_diff(dtype, a, b))
      [] metric = "canberra" ->
           np_sum([i \in DOMAIN a |->
                     np_divide(np_abs(np_subtract(dtype, a[i], b[i])),
                               divisor(dtype, a[i], b[i]))])
      [] metric = "minkowski" ->
           np_sqrt(np_sum([i \in DOMAIN a |->
                             np_square(dtype, np_abs(np_subtract(dtype, a[i], b[i])))]))
      [] metric = "euclidean" -> np_sqrt(np_sum(sq_diff(dtype, a, b)))
      [] metric = "chebyshev" -> np_max(abs_diff(dtype, a, b))
      [] metric = "mqae" ->
           IF Len(a) <= 1 THEN np_sum(abs_diff(dtype, a, b))
           ELSE sum_smallest(abs_diff(dtype, a, b), mqae_qi(Len(a)))
      [] metric = "mse" -> np_sum(sq_diff(dtype, a, b))

\* what the kept integer is a multiple of the program's float by: the length
\* of the mean for mae, canberra and mse, qi for mqae, SqrtScale (rounded
\* down) for the two square roots, 1 for chebyshev
ScoreDen(metric, n) ==
    CASE metric \in {"mae", "canberra", "mse"} -> n
      [] metric = "mqae" -> IF n <= 1 THEN n ELSE mqae_qi(n)
      [] metric \in {"minkowski", "euclidean"} -> SqrtScale
      [] metric = "chebyshev" -> 1

----------------------------------------------------------------------------
(* Top-k selection *)
MinOver(v, S) == CHOOSE m \in {v[i + 1] : i \in S} : \A i \in S : m <= v[i + 1]

RECURSIVE Perms(_)
Perms(S) == IF S = {} THEN {<<>>}
            ELSE UNION {{<<x>> \o p : p \in Perms(S \ {x})} : x \in S}

\* np.argsort(v)[:k], default kind (quicksort, not stable): the 0-based
\* indices in non-decreasing order of value; the order among equal values is
\* left to the build, so every order is an outcome.  The slice keeps what
\* there is when k exceeds the length.
RECURSIVE sorted_heads(_, _, _)
sorted_heads(v, S, m) ==
    IF m = 0 \/ S = {} THEN {<<>>}
    ELSE LET mn == MinOver(v, S)
         IN UNION {{<<i>> \o r : r \in sorted_heads(v, S \ {i}, m - 1)} :
                      i \in {j \in S : v[j + 1] = mn}}

\* mutant: the sort is descending
RECURSIVE sorted_heads_desc(_, _, _)
sorted_heads_desc(v, S, m) ==
    IF m = 0 \/ S = {} THEN {<<>>}
    ELSE LET mx == CHOOSE x \in {v[i + 1] : i \in S} : \A i \in S : x >= v[i + 1]
         IN UNION {{<<i>> \o r : r \in sorted_heads_desc(v, S \ {i}, m - 1)} :
                      i \in {j \in S : v[j + 1] = mx}}

np_argsort_head_descending(v, kk) == sorted_heads_desc(v, 0..(Len(v) - 1), kk)

np_argsort_head(v, kk) == sorted_heads(v, 0..(Len(v) - 1), kk)

\* np.argpartition(v, k - 1)[:k] for 1 <= k <= len(v): position k-1 holds an
\* index of the k-th smallest value, the positions before it hold indices of
\* values not greater, in an order left to the build; the other indices have
\* values not smaller.
np_argpartition_head(v, kk) ==
    LET I == 0..(Len(v) - 1)
        Chosen == {S \in SUBSET I : /\ Cardinality(S) = kk
                                    /\ \A i \in S : \A j \in I \ S : v[i + 1] <= v[j + 1]}
    IN UNION {UNION {{p \o <<l>> : p \in Perms(S \ {l})} :
                        l \in {i \in S : \A j \in S : v[j + 1] <= v[i + 1]}} :
                 S \in Chosen}

\* the selection of both matchers (lines 586-589, 653-656)
select(v, kk, fs) == IF fs THEN np_argsort_head(v, kk) ELSE np_argpartition_head(v, kk)

\* np.argpartition raises ValueError when kth = k - 1 is out of bounds
select_raises(v, kk, fs) == ~fs /\ kk - 1 >= Len(v)

----------------------------------------------------------------------------
(* seasonal_window_match *)
\* mutant: the exception is returned instead of raised (the call ends normally
\* without offsets or scores)
return_ValueError ==
    /\ pc' = "done"
    /\ UNCHANGED <<min_idx, test, scores>>

\* raise ValueError(...): the call ends with the exception, before min_idx,
\* test or scores are set
raise_ValueError ==
    /\ pc' = "raised"
    /\ UNCHANGED <<min_idx, test, scores>>

\* rows lo..hi (1-based, inclusive) of a matrix
Rows(m, lo, hi) == [i \in 1..(hi - lo + 1) |-> m[lo + i - 1]]

\* column f of a window (a sequence of rows)
Column(w, f) == [i \in DOMAIN w |-> w[i][f]]

\* mutant: no tail is left out for large k
n_tail_of_none(kk, ws, fl) == IF kk > min_k THEN 0 ELSE fl

\* mutant: the shorter tail is left out whatever k is
n_tail_of_min(kk, ws, fl) == Min2(ws, fl)

\* mutant: k = min_k already counts as large k
n_tail_of_inclusive(kk, ws, fl) == IF kk >= min_k THEN Min2(ws, fl) ELSE fl

n_tail_of(kk, ws, fl) == IF kk > min_k THEN Min2(ws, fl) ELSE fl

\* sliding_window_view(x, window_size, axis=0): every run of window_size
\* consecutive rows of x, in order of its first row
sliding_window_view(x, ws) == [c \in 1..(Len(x) - ws + 1) |-> Rows(x, c, c + ws - 1)]

\* the candidate windows: array[:-n_tail] cut into windows
candidate_windows(array, kk, ws, fl) ==
    sliding_window_view(Rows(array, 1, Len(array) - n_tail_of(kk, ws, fl)), ws)

\* mutant: the reference window is taken from the first rows, array[:window_size]
window_scores_first_rows(array, temp, ws, metric, dtype) ==
    LET last_window == Rows(array, 1, ws)
    IN [c \in DOMAIN temp |->
          [f \in DOMAIN array[1] |->
              distance(metric, dtype, Column(temp[c], f), Column(last_window, f))]]

\* scores of the window matcher: one row per candidate, one column per feature
window_scores(array, temp, ws, metric, dtype) ==
    LET last_window == Rows(array, Len(array) - ws + 1, Len(array))
    IN [c \in DOMAIN temp |->
          [f \in DOMAIN array[1] |->
              distance(metric, dtype, Column(temp[c], f), Column(last_window, f))]]

\* scores.mean(axis=1), as the numerator over (number of columns * ScoreDen)
mean_axis1(sc) == [c \in DOMAIN sc |-> np_sum(sc[c])]

\* mutant: the comparison is with the last index instead of the length
sentinel_last_index(x, kk, n) == IF kk > min_k /\ x >= n - 1 THEN -1 ELSE x

\* mutant: the comparison with len(DTindex) is strict
sentinel_strict(x, kk, n) == IF kk > min_k /\ x > n THEN -1 ELSE x

\* np.where(test >= len(DTindex), -1, test), applied only when k > min_k
sentinel(x, kk, n) == IF kk > min_k /\ x >= n THEN -1 ELSE x

\* mutant: the offsets start at the window instead of after it
window_offsets_at_window(mi, kk, ws, fl, n) ==
    [s \in 1..fl |-> [j \in DOMAIN mi |-> (s - 1) + mi[j]]]

\* arange(forecast_length)[:, None] + min_idx + window_size, then the sentinel
window_offsets(mi, kk, ws, fl, n) ==
    [s \in 1..fl |-> [j \in DOMAIN mi |-> sentinel((s - 1) + mi[j] + ws, kk, n)]]

seasonal_window_match ==
    /\ pc = "call"
    /\ fn = "seasonal_window_match"
    /\ \E array \in {date_part(DTindex, datepart_method)},
          dtype \in {date_part_dtype(datepart_method)} :
       \E temp \in {candidate_windows(array, k, window_size, forecast_length)} :
          IF distance_metric \notin RecognizedMetrics
          THEN raise_ValueError
          ELSE \E sc \in {window_scores(array, temp, window_size, distance_metric, dtype)} :
               \E avg \in {mean_axis1(sc)} :
                  IF select_raises(avg, k, full_sort)
                  THEN raise_ValueError
                  ELSE \E mi \in select(avg, k, full_sort) :
                          /\ min_idx' = mi
                          /\ test' = window_offsets(mi, k, window_size, forecast_length,
                                                   Len(DTindex))
                          /\ scores' = sc
                          /\ pc' = "done"
    /\ UNCHANGED <<columns, frames>>
    /\ UNCHANGED args

----------------------------------------------------------------------------
(* seasonal_independent_match *)
\* mutant: the rows that are not flagged are overwritten
set_inf_unflagged(array, mask) ==
    [h \in DOMAIN array |->
        IF mask # None /\ ~mask[h] THEN [c \in DOMAIN array[h] |-> Inf] ELSE array[h]]

\* array[nan_array] = np.inf: every column of the rows the mask flags
set_inf(array, mask) ==
    [h \in DOMAIN array |->
        IF mask # None /\ mask[h] THEN [c \in DOMAIN array[h] |-> Inf] ELSE array[h]]

\* the dtype of array.to_numpy() after the assignment: columns that received
\* inf hold floats
masked_dtype(dtype, mask) ==
    IF mask # None /\ (\E h \in DOMAIN mask : mask[h]) THEN "float64" ELSE dtype

\* mutant: every future row is scored as the first one (no broadcast)
independent_scores_first_future(array, future_array, metric, dtype) ==
    [h \in DOMAIN array |->
        [j \in DOMAIN future_array |-> distance(metric, dtype, array[h], future_array[1])]]

\* scores[h][j]: historical row h against future row j
independent_scores(array, future_array, metric, dtype) ==
    [h \in DOMAIN array |->
        [j \in DOMAIN future_array |-> distance(metric, dtype, array[h], future_array[j])]]

\* every way to pick one element from each set of a sequence of sets
RECURSIVE Choices(_)
Choices(sets) == IF sets = <<>> THEN {<<>>}
                 ELSE UNION {{<<x>> \o r : r \in Choices(Tail(sets))} : x \in Head(sets)}

\* the selection along axis 0, one future row (column of scores) at a time:
\* the outcomes, each the transpose of min_idx (one row per future row)
select_axis0(sc, nf, kk, fs) ==
    Choices([j \in 1..nf |-> select([h \in DOMAIN sc |-> sc[h][j]], kk, fs)])

Transpose(m, ncols) == [r \in 1..ncols |-> [j \in DOMAIN m |-> m[j][r]]]

seasonal_independent_match ==
    /\ pc = "call"
    /\ fn = "seasonal_independent_match"
    /\ \E array \in {set_inf(date_part(DTindex, datepart_method), nan_array)},
          future_array \in {date_part(DTindex_future, datepart_method)},
          dtype \in {masked_dtype(date_part_dtype(datepart_method), nan_array)} :
          IF distance_metric \notin RecognizedMetrics
          THEN raise_ValueError
          ELSE \E sc \in {independent_scores(array, future_array, distance_metric, dtype)} :
                  IF select_raises(sc, k, full_sort)
                  THEN raise_ValueError
                  ELSE \E t \in select_axis0(sc, Len(DTindex_future), k, full_sort) :
                          /\ min_idx' = Transpose(t, Min2(k, Len(DTindex)))
                          /\ test' = [j \in DOMAIN t |->
                                        [r \in DOMAIN t[j] |->
                                            sentinel(t[j][r], k, Len(DTindex))]]
                          /\ scores' = sc
                          /\ pc' = "done"
    /\ UNCHANGED <<columns, frames>>
    /\ UNCHANGED args

----------------------------------------------------------------------------
(* date_part called on its own *)
date_part_call ==
    /\ pc = "call"
    /\ fn = "date_part"
    /\ IF date_part_raises(DTindex, datepart_method)
       THEN /\ pc' = "raised"
            /\ UNCHANGED <<test, columns>>
       ELSE /\ test' = IF is_list(datepart_method)
                       THEN date_part_list(DTindex, datepart_method)
                       ELSE date_part(DTindex, datepart_method)
            /\ columns' = date_part_columns(DTindex, datepart_method)
            /\ pc' = "done"
    /\ UNCHANGED <<min_idx, scores, frames>>
    /\ UNCHANGED args

----------------------------------------------------------------------------
(* create_seasonality_feature; its `seasonality` is held in datepart_method *)

\* the exception object that line 501 hands back with `return`
ValueError == <<"ValueError">>

\* the final else of create_seasonality_feature: `return ValueError(...)`,
\* the caller receives the exception object as the result
create_seasonality_feature_else ==
    /\ pc' = "done"
    /\ test' = ValueError
    /\ UNCHANGED columns

create_seasonality_feature_call ==
    /\ pc = "call"
    /\ fn = "create_seasonality_feature"
    /\ \E seasonality \in {datepart_method} :
          IF is_number(seasonality)
          THEN IF history_days_of(DTindex, history_days) = 0
               THEN /\ pc' = "raised"
                    /\ UNCHANGED <<test, columns>>
               ELSE /\ test' = [i \in DOMAIN DTindex |->
                                  fourier_df_at(DTindex, i, seasonality, fourier_df_order,
                                                t_arg, history_days)]
                    /\ columns' = fourier_df_columns(seasonality, fourier_df_order)
                    /\ pc' = "done"
          ELSE IF seasonality \in datepart_components
          THEN /\ test' = [i \in DOMAIN DTindex |->
                             create_datepart_components(DTindex[i], seasonality)]
               /\ columns' = components_columns(seasonality)
               /\ pc' = "done"
          ELSE IF seasonality \in date_part_methods
          THEN /\ test' = date_part(DTindex, seasonality)
               /\ columns' = date_part_columns(DTindex, seasonality)
               /\ pc' = "done"
          ELSE create_seasonality_feature_else
    /\ UNCHANGED <<min_idx, scores, frames>>
    /\ UNCHANGED args

----------------------------------------------------------------------------
(* seasonal_int: one frame per call that has not returned *)

\* list(prob_dict.keys()); every key has a positive weight
prob_dict_keys == {-1, 1, 2, 4, 7, 10, 12, 24, 28, 60, 96, 168, 364, 1440, 420, 52, 84}

\* random.randint(2, 100), both ends included
randint_values == 2..100

\* a call that starts: its arguments, the line it is at, and lag (0 while
\* lag has no value that is read again: before the draw and during a call
\* whose result replaces it)
frame(include_one, small, very_small) ==
    [include_one |-> include_one, small |-> small, very_small |-> very_small,
     at |-> "choices", lag |-> 0]

top == frames[Len(frames)]

set_top(f) == [frames EXCEPT ![Len(frames)] = f]

running == fn = "seasonal_int" /\ pc = "call"

\* lag if lag < 364 else 364
small_clamp(lag) == IF lag < 364 THEN lag ELSE 364

\* the loop condition `lag > 30`
very_small_loops(lag) == lag > 30

\* lag = random.choices(keys, weights, k=1)[0]
random_choices ==
    /\ running
    /\ top.at = "choices"
    /\ \E lag \in prob_dict_keys :
          frames' = set_top([top EXCEPT !.lag = lag,
                                        !.at = IF lag = -1 THEN "randint" ELSE "include_one"])
    /\ UNCHANGED <<pc, min_idx, test, scores, columns>>
    /\ UNCHANGED args

\* if lag == -1: lag = random.randint(2, 100)
random_randint ==
    /\ running
    /\ top.at = "randint"
    /\ \E lag \in randint_values :
          frames' = set_top([top EXCEPT !.lag = lag, !.at = "include_one"])
    /\ UNCHANGED <<pc, min_idx, test, scores, columns>>
    /\ UNCHANGED args

\* if not include_one and lag == 1: lag = seasonal_int(include_one, small,
\* very_small): the recursive call starts, or the line is passed
seasonal_int_include_one ==
    /\ running
    /\ top.at = "include_one"
    /\ IF ~top.include_one /\ top.lag = 1
       THEN /\ Len(frames) < MaxDepth
            /\ frames' = Append(set_top([top EXCEPT !.lag = 0, !.at = "include_one_result"]),
                                frame(top.include_one, top.small, top.very_small))
       ELSE frames' = set_top([top EXCEPT !.at = "small"])
    /\ UNCHANGED <<pc, min_idx, test, scores, columns>>
    /\ UNCHANGED args

\* if small: lag = lag if lag < 364 else 364
seasonal_int_small ==
    /\ running
    /\ top.at = "small"
    /\ frames' = set_top([top EXCEPT !.lag = IF top.small THEN small_clamp(top.lag) ELSE top.lag,
                                     !.at = "very_small"])
    /\ UNCHANGED <<pc, min_idx, test, scores, columns>>
    /\ UNCHANGED args

\* if very_small: while lag > 30: lag = seasonal_int(include_one=include_one,
\* very_small=very_small): one test of the loop; the call it starts has the
\* default small=False
seasonal_int_very_small ==
    /\ running
    /\ top.at = "very_small"
    /\ IF top.very_small /\ very_small_loops(top.lag)
       THEN /\ Len(frames) < MaxDepth
            /\ frames' = Append(set_top([top EXCEPT !.lag = 0, !.at = "very_small_result"]),
                                frame(top.include_one, FALSE, top.very_small))
       ELSE frames' = set_top([top EXCEPT !.at = "return"])
    /\ UNCHANGED <<pc, min_idx, test, scores, columns>>
    /\ UNCHANGED args

\* return int(lag): to the caller's assignment, or out of the first call
\* (whose frame stays, for its arguments)
seasonal_int_return ==
    /\ running
    /\ top.at = "return"
    /\ IF Len(frames) = 1
       THEN /\ test' = top.lag
            /\ pc' = "done"
            /\ frames' = set_top([top EXCEPT !.at = "returned"])
       ELSE /\ frames' = [i \in 1..(Len(frames) - 1) |->
                            IF i < Len(frames) - 1 THEN frames[i]
                            ELSE [frames[i] EXCEPT
                                    !.lag = top.lag,
                                    !.at = IF frames[i].at = "include_one_result"
                                           THEN "small" ELSE "very_small"]]
            /\ UNCHANGED <<pc, test>>
    /\ UNCHANGED <<min_idx, scores, columns>>
    /\ UNCHANGED args

----------------------------------------------------------------------------
(* Inputs *)
MaxH == 2          \* longest history of seasonal_independent_match, any scheme or mask
LongH == 6         \* one longer history, drawn with the schemes of LongMethods

daily(start, n) == [i \in 1..n |-> start + i - 1]

Metrics == RecognizedMetrics \cup {"manhattan"}

MatchMethods == {"dayofweek", "month", "weekend", "simple"}

\* the schemes drawn with the history of length LongN
LongMethods == {"simple"}

\* The metrics drawn with a scheme: every metric with the 0/1-valued schemes;
\* with "simple", whose features are calendar numbers, the metrics whose
\* value is a ratio of whole numbers with a denominator common to all
\* candidates.
MetricsFor(method) ==
    IF method = "simple" THEN {"mae", "chebyshev", "mqae", "mse", "manhattan"} ELSE Metrics

InitLocals ==
    /\ pc = "call"
    /\ min_idx = None
    /\ test = None
    /\ scores = None
    /\ columns = None
    /\ frames = <<>>

\* seasonal_window_match on a daily history that holds at least one candidate
\* window: window_size + n_tail <= len(DTindex)
InitWindow ==
    /\ fn = "seasonal_window_match"
    /\ \E start \in Starts, n \in (2..MaxN) \cup {LongN} : DTindex = daily(start, n)
    /\ DTindex_future = None
    /\ nan_array = None
    /\ t_arg = None
    /\ history_days = None
    /\ k \in 1..MaxK
    /\ window_size \in 1..MaxW
    /\ forecast_length \in 1..MaxFL
    /\ window_size + n_tail_of(k, window_size, forecast_length) <= Len(DTindex)
    /\ datepart_method \in (IF Len(DTindex) <= MaxN THEN MatchMethods ELSE LongMethods)
    /\ distance_metric \in MetricsFor(datepart_method)
    /\ full_sort \in BOOLEAN

\* the masks of a history of n rows that flag at least one row
Masks(n) == {m \in [1..n -> BOOLEAN] : \E h \in 1..n : m[h]}

\* seasonal_independent_match on a daily history and its contiguous extension,
\* without a mask or with one
InitIndependent ==
    /\ fn = "seasonal_independent_match"
    /\ \E start \in Starts, n \in 1..MaxH, nf \in 1..MaxFL :
          /\ DTindex = daily(start, n)
          /\ DTindex_future = daily(start + n, nf)
    /\ nan_array \in {None} \cup Masks(Len(DTindex))
    /\ t_arg = None
    /\ history_days = None
    /\ k \in 1..MaxK
    /\ window_size = 0
    /\ forecast_length = 0
    /\ datepart_method \in MatchMethods
    /\ distance_metric \in MetricsFor(datepart_method)
    /\ full_sort \in BOOLEAN

\* seasonal_independent_match on the history of LongH days and the day after it
InitIndependentLong ==
    /\ fn = "seasonal_independent_match"
    /\ \E start \in Starts :
          /\ DTindex = daily(start, LongH)
          /\ DTindex_future = daily(start + LongH, 1)
    /\ nan_array = None
    /\ t_arg = None
    /\ history_days = None
    /\ k \in 1..MaxK
    /\ window_size = 0
    /\ forecast_length = 0
    /\ datepart_method \in LongMethods
    /\ distance_metric \in MetricsFor(datepart_method)
    /\ full_sort \in BOOLEAN

\* a history of n timestamps, one every `step` days
every(start, n, step) == [i \in 1..n |-> start + (i - 1) * step]

\* the spacings of the histories of date_part: daily, weekly, and every 315
\* days (2024-01-26 and 2024-12-06 are 315 days apart)
Steps == {1, 7, 315}

\* date_part called on a history; DTindex_future is None or the contiguous
\* extension of the history at the same spacing
InitDatePart ==
    /\ fn = "date_part"
    /\ \E start \in Starts, n \in 1..MaxN, step \in Steps :
          /\ DTindex = every(start, n, step)
          /\ DTindex_future \in {None} \cup
                {every(start + n * step, nf, step) : nf \in 1..MaxFL}
    /\ nan_array = None
    /\ t_arg = None
    /\ history_days = None
    /\ k = 0
    /\ window_size = 0
    /\ forecast_length = 0
    /\ datepart_method \in DatePartMethods
    /\ distance_metric = "mae"
    /\ full_sort = FALSE

\* the time values handed to create_seasonality_feature: none, the days from
\* origin_ts, or the positions 0..n-1
TArgs(DT) == {None, [i \in DOMAIN DT |-> DT[i] - origin_ts], [i \in DOMAIN DT |-> i - 1]}

\* the history_days handed to create_seasonality_feature
HistoryDays == {None, <<0>>, <<365>>}

\* the seasonalities handed to create_seasonality_feature
SeasonalityFeatures ==
    NumericMethods \cup UnknownMethods
      \cup {"dayofweek", "weekend", "hour", "days_from_epoch", "simple_poly", "recurring",
             "simple_binarized", "common_fourier"}

InitSeasonalityFeature ==
    /\ fn = "create_seasonality_feature"
    /\ \E start \in Starts, n \in 1..MaxN : DTindex = daily(start, n)
    /\ DTindex_future = None
    /\ nan_array = None
    /\ t_arg \in TArgs(DTindex)
    /\ history_days \in HistoryDays
    /\ k = 0
    /\ window_size = 0
    /\ forecast_length = 0
    /\ datepart_method \in SeasonalityFeatures
    /\ distance_metric = "mae"
    /\ full_sort = FALSE

\* seasonal_int called with every combination of its three flags
InitSeasonalInt ==
    /\ fn = "seasonal_int"
    /\ DTindex = None
    /\ DTindex_future = None
    /\ nan_array = None
    /\ t_arg = None
    /\ history_days = None
    /\ k = 0
    /\ window_size = 0
    /\ forecast_length = 0
    /\ datepart_method = "simple"
    /\ distance_metric = "mae"
    /\ full_sort = FALSE
    /\ pc = "call"
    /\ min_idx = None
    /\ test = None
    /\ scores = None
    /\ columns = None
    /\ \E include_one \in BOOLEAN, small \in BOOLEAN, very_small \in BOOLEAN :
          frames = <<frame(include_one, small, very_small)>>

Init == InitLocals /\ (InitWindow \/ InitIndependent \/ InitIndependentLong)

Next == seasonal_window_match \/ seasonal_independent_match

Spec == Init /\ [][Next]_vars

InitDP == InitLocals /\ (InitDatePart \/ InitSeasonalityFeature)

NextDP == date_part_call \/ create_seasonality_feature_call

SpecDatePart == InitDP /\ [][NextDP]_vars

NextSeasonalInt ==
    \/ random_choices
    \/ random_randint
    \/ seasonal_int_include_one
    \/ seasonal_int_small
    \/ seasonal_int_very_small
    \/ seasonal_int_return

SpecSeasonalInt == InitSeasonalInt /\ [][NextSeasonalInt]_vars

----------------------------------------------------------------------------
(* Properties *)
Returned == pc = "done"
IsWindow == fn = "seasonal_window_match"
IsIndependent == fn = "seasonal_independent_match"

\* the number of candidates the selection chooses among
Candidates == IF IsWindow THEN Len(scores) ELSE Len(DTindex)

\* the offset the code projects for the candidate in column j at step s (s from 0)
Projected(j, s) == min_idx[j] + window_size + s

\* C1: in seasonal_window_match the offsets matrix has one row per step and
\* one column per selected candidate window, every selected candidate is the
\* index of a candidate window, and the cell at step s of the column of
\* candidate c is c + window_size + s unless the large-k sentinel replaced it
\* (k > 5 and the projected offset is at or past len(history)).
C1_OffsetProjection ==
    (Returned /\ IsWindow) =>
        /\ Len(test) = forecast_length
        /\ \A j \in DOMAIN min_idx : min_idx[j] \in 0..(Len(scores) - 1)
        /\ \A s \in 1..forecast_length :
              /\ Len(test[s]) = Len(min_idx)
              /\ \A j \in DOMAIN min_idx :
                    (k <= 5 \/ Projected(j, s - 1) < Len(DTindex))
                        => test[s][j] = Projected(j, s - 1)

\* reached: a small-k call returned two columns over two steps
C1_Witness ==
    /\ Returned /\ IsWindow
    /\ k <= 5 /\ forecast_length >= 2 /\ Len(min_idx) >= 2
    /\ \E j \in DOMAIN min_idx : test[2][j] = min_idx[j] + window_size + 1

\* C2: in seasonal_window_match with k > 5 every projected offset at or past
\* len(history) is returned as -1, every projected offset below len(history)
\* is returned unchanged, and no returned cell is >= len(history).
C2_LargeKSentinel ==
    (Returned /\ IsWindow /\ k > 5) =>
        \A s \in 1..forecast_length : \A j \in DOMAIN min_idx :
            /\ Projected(j, s - 1) >= Len(DTindex) => test[s][j] = -1
            /\ Projected(j, s - 1) < Len(DTindex) => test[s][j] = Projected(j, s - 1)
            /\ test[s][j] < Len(DTindex)

\* reached: k = 6 candidates were selected out of at least 6, one cell was
\* replaced by the sentinel and another kept
C2_Witness ==
    /\ Returned /\ IsWindow /\ k > 5 /\ Len(min_idx) = k
    /\ \E s \in 1..forecast_length : \E j \in DOMAIN min_idx :
          test[s][j] = -1 /\ Projected(j, s - 1) >= Len(DTindex)
    /\ \E s \in 1..forecast_length : \E j \in DOMAIN min_idx : test[s][j] >= 0

\* the feature matrix of the call and its windows, as the matchers build them
Features == date_part(DTindex, datepart_method)
FutureFeatures == date_part(DTindex_future, datepart_method)
CandidateWindows == candidate_windows(Features, k, window_size, forecast_length)
ReferenceWindow == Rows(Features, Len(DTindex) - window_size + 1, Len(DTindex))

\* candidate window c (0-based) is numerically identical to the reference window
Identical(c) == CandidateWindows[c + 1] = ReferenceWindow

\* candidate c is the only candidate window identical to the reference window
OnlyIdentical(c) ==
    /\ Identical(c)
    /\ \A o \in 0..(Len(CandidateWindows) - 1) : o # c => ~Identical(o)

\* candidate c is the one selected, every score of it is 0, and the returned
\* offsets are c + window_size + step
SelectedAlone(c) ==
    /\ min_idx = <<c>>
    /\ \A f \in DOMAIN scores[c + 1] : scores[c + 1][f] = 0
    /\ \A s \in 1..forecast_length : test[s] = <<c + window_size + (s - 1)>>

SameFeatures(h, j) == set_inf(Features, nan_array)[h + 1] = FutureFeatures[j]

\* C4: in seasonal_independent_match with k = 1 and metric mae, the output has
\* one row per future timestamp, in their order, and the row of every future
\* timestamp whose feature vector equals that of exactly one historical row
\* is that row's index, whatever the other future rows are.
C4_ExactRowSelected ==
    (Returned /\ IsIndependent /\ k = 1 /\ distance_metric = "mae") =>
        /\ Len(test) = Len(DTindex_future)
        /\ \A j \in DOMAIN DTindex_future : \A h \in 0..(Len(DTindex) - 1) :
              (SameFeatures(h, j) /\ \A o \in 0..(Len(DTindex) - 1) : o # h => ~SameFeatures(o, j))
                  => test[j] = <<h>>

\* reached: two future rows matched two different historical rows, the first
\* future row the later one
C4_Witness ==
    /\ Returned /\ IsIndependent /\ k = 1 /\ distance_metric = "mae"
    /\ Len(DTindex_future) = 2 /\ Len(DTindex) = 2
    /\ SameFeatures(1, 1) /\ ~SameFeatures(0, 1)
    /\ SameFeatures(0, 2) /\ ~SameFeatures(1, 2)
    /\ test = <<<<1>>, <<0>>>>

\* C5: the score matrix of seasonal_window_match has
\* len(history) - n_tail - window_size + 1 rows, one per window of window_size
\* rows that ends before the last n_tail rows, with
\* n_tail = min(window_size, forecast_length) when k > 5 and
\* n_tail = forecast_length when k <= 5.
C5_CandidateCount ==
    (Returned /\ IsWindow) =>
        /\ k > 5 => Len(scores) = Len(DTindex) - Min2(window_size, forecast_length)
                                    - window_size + 1
        /\ k <= 5 => Len(scores) = Len(DTindex) - forecast_length - window_size + 1

\* reached: k = 5 with window_size < forecast_length, where the two rules differ
C5_Witness ==
    /\ Returned /\ IsWindow /\ k = 5 /\ window_size < forecast_length
    /\ Len(scores) = Len(DTindex) - forecast_length - window_size + 1
    /\ Len(scores) # Len(DTindex) - window_size - window_size + 1

\* The selections of a call: one for seasonal_window_match (over the averaged
\* score of each candidate window), one per future row for
\* seasonal_independent_match (over the column of scores of that row).
SelectionIds == IF IsWindow THEN {1} ELSE DOMAIN DTindex_future
Selection(j) == IF IsWindow THEN min_idx ELSE [r \in DOMAIN min_idx |-> min_idx[r][j]]
ScoreVector(j) == IF IsWindow THEN mean_axis1(scores)
                  ELSE [h \in DOMAIN scores |-> scores[h][j]]

\* C6: with full_sort = true and k <= number of candidates, each selection of
\* both matchers holds k different candidates, no unselected candidate has a
\* smaller score than a selected one, and the scores are non-decreasing in
\* output order.
C6_SortedSmallest ==
    (Returned /\ full_sort /\ k <= Candidates) =>
        \A j \in SelectionIds :
            LET sel == Selection(j)
                v == ScoreVector(j)
            IN /\ Len(sel) = k
               /\ \A a, b \in DOMAIN sel : a < b =>
                     (sel[a] # sel[b] /\ v[sel[a] + 1] <= v[sel[b] + 1])
               /\ \A a \in DOMAIN sel : \A i \in 0..(Candidates - 1) :
                     i \notin Range(sel) => v[sel[a] + 1] <= v[i + 1]

\* reached: a full sort returned fewer candidates than there are, in strictly
\* increasing score order, leaving a candidate with a larger score unselected
C6_Witness ==
    /\ Returned /\ full_sort /\ k >= 2 /\ k < Candidates
    /\ \E j \in SelectionIds :
          LET sel == Selection(j)
              v == ScoreVector(j)
          IN /\ v[sel[1] + 1] < v[sel[2] + 1]
             /\ sel[1] > sel[2]
             /\ \E i \in 0..(Candidates - 1) : i \notin Range(sel) /\ v[i + 1] > v[sel[k] + 1]

\* C7: with full_sort = true, candidates that have equal scores are returned
\* in their original index order (a stable sort): of two candidates with equal
\* scores the one with the smaller index comes first, and is the one selected
\* when only one of them is.
C7_StableTieBreak ==
    (Returned /\ full_sort) =>
        \A j \in SelectionIds :
            LET sel == Selection(j)
                v == ScoreVector(j)
            IN /\ \A a, b \in DOMAIN sel :
                     (a < b /\ v[sel[a] + 1] = v[sel[b] + 1]) => sel[a] < sel[b]
               /\ \A a \in DOMAIN sel : \A i \in 0..(Candidates - 1) :
                     (i \notin Range(sel) /\ v[i + 1] = v[sel[a] + 1]) => sel[a] < i

\* C8: for k <= number of candidates, the indices selected with
\* full_sort = false are, as a multiset, the first k indices that
\* full_sort = true selects on the same score vector.
C8_PartialEqualsSorted ==
    (Returned /\ ~full_sort /\ k <= Candidates) =>
        \A j \in SelectionIds :
            \A h \in np_argsort_head(ScoreVector(j), k) :
                /\ Len(h) = Len(Selection(j))
                /\ Range(h) = Range(Selection(j))

\* C9: when k exceeds the number of candidates, no call returns an offsets
\* matrix with fewer than k matches per forecast step.
C9_NoSilentTruncation ==
    (Returned /\ k > Candidates) => \A s \in DOMAIN test : Len(test[s]) >= k

\* C10: date_part called with a scheme name that is neither an enumerated
\* scheme, nor a calendar-part name, a number or a list raises a configuration
\* error: it returns no feature matrix.
C10_UnknownSchemeRaises ==
    (fn = "date_part" /\ datepart_method \in UnknownMethods) => ~Returned

IsDatePart == fn = "date_part"

\* the row the "expanded" scheme is specified to give for timestamp d
ExpandedRow(d) == <<year(d), month(d), day(d), weekday(d)>> \o expanded_extras(d)

\* C11: date_part with scheme "expanded" returns, for every timestamp, the four
\* ordinal "simple" columns (year, month, day-of-month, weekday) followed by
\* the fourteen expanded extras, and its matrix is not the one-hot matrix of
\* "expanded_binarized".
C11_ExpandedLayout ==
    (IsDatePart /\ Returned /\ datepart_method = "expanded") =>
        /\ \A i \in DOMAIN test :
              IF Len(test[i]) = Len(ExpandedRow(DTindex[i]))
              THEN test[i] = ExpandedRow(DTindex[i])
              ELSE FALSE
        /\ test # date_part(DTindex, "expanded_binarized")

\* C12: both matchers called with a distance_metric outside the seven names
\* end with an exception, and no offsets, selection or scores were produced.
C12_UnknownMetricRaises ==
    ((IsWindow \/ IsIndependent) /\ pc # "call"
       /\ distance_metric \notin {"mae", "canberra", "minkowski", "euclidean",
                                 "chebyshev", "mqae", "mse"}) =>
        /\ pc = "raised"
        /\ test = None /\ scores = None /\ min_idx = None

\* reached: the independent matcher raised on "manhattan" with a k the
\* selection accepts
C12_Witness ==
    /\ IsIndependent /\ pc = "raised" /\ distance_metric = "manhattan"
    /\ k <= Len(DTindex) /\ test = None /\ scores = None

\* the size of the fixed category domain of the one-hot calendar-part schemes
CategoryDomainSize ==
    [month |-> 12, dayofweek |-> 7, day |-> 31, weekdayofmonth |-> 5, quarter |-> 4,
     hour |-> 24, dayofyear |-> 366]

\* C13: for the one-hot calendar-part schemes month, dayofweek, day,
\* weekdayofmonth, quarter, hour and dayofyear, every row of the returned
\* matrix has as many columns as the scheme's category domain (12, 7, 31, 5,
\* 4, 24, 366), for every timestamp sequence, a single timestamp included.
C13_FixedColumnCount ==
    (IsDatePart /\ Returned /\ datepart_method \in DOMAIN CategoryDomainSize) =>
        /\ Len(test) = Len(DTindex)
        /\ \A i \in DOMAIN test : Len(test[i]) = CategoryDomainSize[datepart_method]

\* reached: "month" on one January timestamp returned one row of 12 columns,
\* of which the first is the only 1
C13_Witness ==
    /\ IsDatePart /\ Returned /\ datepart_method = "month"
    /\ Len(DTindex) = 1 /\ month(DTindex[1]) = 1
    /\ Len(test[1]) = 12 /\ test[1][1] = 1
    /\ \A c \in 2..12 : test[1][c] = 0

\* C14: for every scheme, when the history was encoded, its contiguous
\* same-spacing extension (of any length >= 1) is encoded too, with the same
\* scheme, into a matrix with the same number of columns.
C14_SameColumnCount ==
    (IsDatePart /\ Returned /\ DTindex_future # None) =>
        /\ ~date_part_raises(DTindex_future, datepart_method)
        /\ Len(date_part(DTindex_future, datepart_method)[1]) = Len(test[1])

\* C15: in seasonal_independent_match every historical row the mask flags has
\* score +inf against every future row, whatever the metric.
C15_MaskedRowsInf ==
    (Returned /\ IsIndependent /\ nan_array # None) =>
        \A h \in DOMAIN nan_array : nan_array[h] =>
            \A j \in DOMAIN DTindex_future : scores[h][j] = Inf

\* C16: seasonal_independent_match with k <= len(history) returns, for every
\* future row, k offsets that all lie in 0..len(history)-1, also when k > 5:
\* the sentinel -1 is never returned.
C16_IndependentOffsetsInRange ==
    (Returned /\ IsIndependent /\ k <= Len(DTindex)) =>
        \A j \in DOMAIN test :
            /\ Len(test[j]) = k
            /\ \A r \in DOMAIN test[j] : test[j][r] \in 0..(Len(DTindex) - 1)

\* reached: k = 6 > 5 offsets returned for a history of at least 6 rows, the
\* last row of the history among them
C16_Witness ==
    /\ Returned /\ IsIndependent /\ k > 5 /\ k <= Len(DTindex)
    /\ \E r \in DOMAIN test[1] : test[1][r] = Len(DTindex) - 1

\* The inputs of the cells of the score matrix: for cell (r, c) the two
\* sequences that are compared and reduced to it.  In seasonal_window_match:
\* column c of candidate window r and of the reference window (reduced over
\* the window); in seasonal_independent_match: historical row r and future
\* row c (reduced over the features).
CellsA ==
    IF IsWindow
    THEN LET cw == CandidateWindows
         IN [r \in DOMAIN scores |-> [c \in DOMAIN scores[1] |-> Column(cw[r], c)]]
    ELSE LET rows == set_inf(Features, nan_array)
         IN [r \in DOMAIN scores |-> [c \in DOMAIN scores[1] |-> rows[r]]]
CellsB ==
    IF IsWindow
    THEN LET ref == ReferenceWindow
         IN [r \in DOMAIN scores |-> [c \in DOMAIN scores[1] |-> Column(ref, c)]]
    ELSE LET rows == FutureFeatures
         IN [r \in DOMAIN scores |-> [c \in DOMAIN scores[1] |-> rows[c]]]
CellDtype == IF IsWindow THEN date_part_dtype(datepart_method)
             ELSE masked_dtype(date_part_dtype(datepart_method), nan_array)
Finite(a) == \A i \in DOMAIN a : is_finite(a[i])
Cells == {<<r, c>> : r \in DOMAIN scores, c \in DOMAIN scores[1]}

\* ceil(0.85 * n)
Ceil85(n) == (85 * n + 99) \div 100

\* C17: every mqae score is the mean of exactly the ceil(0.85 * F) smallest
\* absolute differences along the reduced axis of length F (at least one
\* value): score * ceil(0.85 F) = sum of the ceil(0.85 F) smallest.
C17_MqaeCeil ==
    (Returned /\ distance_metric = "mqae") =>
        \A A \in {CellsA}, B \in {CellsB}, dtype \in {CellDtype} : \A rc \in Cells :
            \A ae \in {abs_diff(dtype, A[rc[1]][rc[2]], B[rc[1]][rc[2]])} :
                Finite(ae) =>
                    /\ Ceil85(Len(ae)) >= 1
                    /\ scores[rc[1]][rc[2]] * Ceil85(Len(ae))
                          = SumSeq(np_partition_head(ae, Ceil85(Len(ae))))
                              * ScoreDen("mqae", Len(ae))

\* C18: under mae, canberra and euclidean, a cell that compares a sequence
\* with an identical sequence (zeros included) has score 0.
C18_SelfDistanceZero ==
    (Returned /\ distance_metric \in {"mae", "canberra", "euclidean"}) =>
        \A A \in {CellsA}, B \in {CellsB} : \A rc \in Cells :
            (Finite(A[rc[1]][rc[2]]) /\ A[rc[1]][rc[2]] = B[rc[1]][rc[2]])
                => scores[rc[1]][rc[2]] = 0

\* reached: under canberra a sequence that holds a zero and a non-zero was
\* compared with an identical one, and another cell of the matrix is not 0
C18_Witness ==
    /\ Returned /\ distance_metric = "canberra"
    /\ \E A \in {CellsA}, B \in {CellsB} : \E rc \in Cells :
          /\ A[rc[1]][rc[2]] = B[rc[1]][rc[2]]
          /\ 0 \in Range(A[rc[1]][rc[2]])
          /\ Range(A[rc[1]][rc[2]]) # {0}
          /\ scores[rc[1]][rc[2]] = 0
    /\ \E rc \in Cells : scores[rc[1]][rc[2]] # 0

\* C19: every mqae score is at most the mae score of the same inputs, cell by
\* cell: score_mqae / qi <= sum(|a - b|) / n, with both sides infinite for a
\* masked row.
C19_MqaeAtMostMae ==
    (Returned /\ distance_metric = "mqae") =>
        \A A \in {CellsA}, B \in {CellsB}, dtype \in {CellDtype} : \A rc \in Cells :
            \A ae \in {abs_diff(dtype, A[rc[1]][rc[2]], B[rc[1]][rc[2]])} :
                IF Finite(ae)
                THEN scores[rc[1]][rc[2]] * ScoreDen("mae", Len(ae))
                       <= SumSeq(ae) * ScoreDen("mqae", Len(ae))
                ELSE scores[rc[1]][rc[2]] = np_sum(ae)

\* reached: an mqae score that is not 0 and strictly below the mae score of
\* the same inputs
C19_Witness ==
    /\ Returned /\ distance_metric = "mqae"
    /\ \E A \in {CellsA}, B \in {CellsB}, dtype \in {CellDtype} : \E rc \in Cells :
          \E ae \in {abs_diff(dtype, A[rc[1]][rc[2]], B[rc[1]][rc[2]])} :
             /\ Finite(ae)
             /\ scores[rc[1]][rc[2]] > 0
             /\ scores[rc[1]][rc[2]] * ScoreDen("mae", Len(ae))
                   < SumSeq(ae) * ScoreDen("mqae", Len(ae))

\* the term of one position of a canberra cell when the divisor at
\* |a| + |b| = 0 is 1: 0 where both values are 0, |a - b| / (|a| + |b|) elsewhere
CanberraTerm(dtype, a, b) ==
    IF a = 0 /\ b = 0 THEN 0
    ELSE np_abs(np_subtract(dtype, a, b)) \div abs_sum(dtype, a, b)

\* C20: for finite inputs every canberra score is a finite number, the sum of
\* the terms in which a position where both values are 0 has divisor 1 and
\* contributes 0.
C20_CanberraFinite ==
    (Returned /\ distance_metric = "canberra") =>
        \A A \in {CellsA}, B \in {CellsB}, dtype \in {CellDtype} : \A rc \in Cells :
            \A a \in {A[rc[1]][rc[2]]}, b \in {B[rc[1]][rc[2]]} :
                Finite(a) =>
                    /\ is_finite(scores[rc[1]][rc[2]])
                    /\ scores[rc[1]][rc[2]]
                          = SumSeq([i \in DOMAIN a |-> CanberraTerm(dtype, a[i], b[i])])

\* reached: a canberra cell with a position where both values are 0 and a
\* position where they differ, whose score is not 0
C20_Witness ==
    /\ Returned /\ distance_metric = "canberra"
    /\ \E A \in {CellsA}, B \in {CellsB} : \E rc \in Cells :
          \E a \in {A[rc[1]][rc[2]]}, b \in {B[rc[1]][rc[2]]} :
             /\ Finite(a)
             /\ \E i \in DOMAIN a : a[i] = 0 /\ b[i] = 0
             /\ \E i \in DOMAIN a : a[i] # b[i]
             /\ scores[rc[1]][rc[2]] > 0

\* the daily harmonic set at timestamp d: yearly n=10, weekly n=3 and the
\* product of weekly n=5 with yearly n=5, on the days from origin_ts
DailyHarmonics(d) ==
    fourier_series(d - origin_ts, FourierPeriods.yearly, 10)
      \o fourier_series(d - origin_ts, FourierPeriods.weekly, 3)
      \o multiply(fourier_series(d - origin_ts, FourierPeriods.weekly, 5),
                  fourier_series(d - origin_ts, FourierPeriods.yearly, 5))

\* C21: date_part with scheme "common_fourier" or "common_fourier_rw" on a
\* single timestamp never ends with a division error: it returns one row, the
\* daily harmonic set (36 columns), followed by the epoch term for "_rw".
C21_SingleTimestampDaily ==
    (IsDatePart /\ pc # "call" /\ Len(DTindex) = 1
       /\ datepart_method \in {"common_fourier", "common_fourier_rw"}) =>
        /\ Returned
        /\ Len(test) = 1
        /\ test[1] = DailyHarmonics(DTindex[1])
                       \o (IF datepart_method = "common_fourier_rw"
                           THEN <<<<"int_pow_0.65", to_julian_date(DTindex[1])>>>> ELSE <<>>)
        /\ Len(columns) = Len(test[1])
        /\ Len(test[1]) = IF datepart_method = "common_fourier_rw" THEN 37 ELSE 36

\* reached: "common_fourier_rw" returned for a single timestamp with 37 columns
C21_Witness ==
    /\ IsDatePart /\ Returned /\ Len(DTindex) = 1
    /\ datepart_method = "common_fourier_rw"
    /\ Len(test[1]) = 37

\* the positions of a sequence of names at which the name occurs for the first time
FirstOccurrences(names) == {p \in DOMAIN names : \A q \in 1..(p - 1) : names[q] # names[p]}

\* the rows of the sub-schemes of a list scheme side by side, for timestamp i
SideBySide(i) ==
    the({concat_axis1([s \in DOMAIN items |-> date_part_row_of(DTindex, DTindex[i], items[s])]) :
           items \in {list_items(datepart_method)}})

\* C22: date_part with a list scheme returns one row per timestamp; its
\* columns are the columns of the sub-schemes in list order without those
\* whose name occurred earlier: the c-th column is the c-th first occurrence
\* of a name, with the values of that occurrence.
C22_ListConcatKeepFirst ==
    (IsDatePart /\ Returned /\ is_list(datepart_method)) =>
        \A all \in {list_columns_all(DTindex, datepart_method)} :
          \A firsts \in {FirstOccurrences(all)} :
            /\ Len(test) = Len(DTindex)
            /\ Len(columns) = Cardinality(firsts)
            /\ \A i \in DOMAIN test : Len(test[i]) = Len(columns)
            /\ \A p \in firsts :
                  \A c \in {Cardinality({q \in firsts : q <= p})} :
                     /\ columns[c] = all[p]
                     /\ \A i \in DOMAIN test : test[i][c] = SideBySide(i)[p]

\* reached: a list whose second sub-scheme repeats a name of the first
\* ("weekend" of "recurring") returned on several timestamps with that name once
C22_Witness ==
    /\ IsDatePart /\ Returned /\ datepart_method = "[recurring, weekend]"
    /\ Len(DTindex) > 1
    /\ columns = <<"month", "day", "weekday", "weekend", "hour", "quarter", "midyear">>
    /\ Len(list_columns_all(DTindex, datepart_method)) = 8

IsSeasonalInt == fn = "seasonal_int"

\* C23: seasonal_int called with small=True returns a value below 364.
C23_SmallBelow364 ==
    (IsSeasonalInt /\ Returned /\ frames[1].small) => test < 364

\* C24: seasonal_int called with very_small=True returns a value below 30,
\* with include_one true or false.
C24_VerySmallBelow30 ==
    (IsSeasonalInt /\ Returned /\ frames[1].very_small) => test < 30

\* the offsets seasonal_window_match can return on a daily history of n days
\* from `start` (empty when the call raises)
WindowOffsetsOf(start, n, kk, ws, fl, method, metric, fs) ==
    UNION { UNION { UNION { IF select_raises(avg, kk, fs) THEN {}
                            ELSE {window_offsets(mi, kk, ws, fl, n) : mi \in select(avg, kk, fs)} :
                            avg \in {mean_axis1(window_scores(array, temp, ws, metric,
                                                              date_part_dtype(method)))} } :
                    temp \in {candidate_windows(array, kk, ws, fl)} } :
            array \in {date_part(daily(start, n), method)} }

\* C25 as stated: where seasonal_window_match is called, there is an input
\* with k <= 5 that satisfies the shape preconditions (window_size +
\* forecast_length <= len(history), k <= number of candidate windows) for
\* which it returns an offset at or past len(history).
C25_SmallKCanOverrun ==
    IsWindow =>
    \E start \in Starts, n \in 2..MaxN, kk \in 1..min_k, ws \in 1..MaxW, fl \in 1..MaxFL,
       method \in MatchMethods, fs \in BOOLEAN :
       /\ ws + fl <= n
       /\ kk <= n - fl - ws + 1
       /\ \E metric \in MetricsFor(method) \cap RecognizedMetrics :
             \E offsets \in WindowOffsetsOf(start, n, kk, ws, fl, method, metric, fs) :
                \E s \in DOMAIN offsets : \E j \in DOMAIN offsets[s] : offsets[s][j] >= n

\* C25, amended: in small-k mode (k <= 5) no sentinel is applied, every cell is
\* the projected offset, and with window_size + forecast_length <=
\* len(history) every returned offset lies in 0..len(history)-1.
C25_SmallKInRange ==
    (IsWindow /\ Returned /\ k <= min_k /\ window_size + forecast_length <= Len(DTindex)) =>
        \A s \in DOMAIN test : \A j \in DOMAIN test[s] :
            /\ test[s][j] = Projected(j, s - 1)
            /\ test[s][j] \in 0..(Len(DTindex) - 1)

\* reached: a small-k call with k <= number of candidates whose last step
\* returns the last index of the history
C25_Witness ==
    /\ IsWindow /\ Returned /\ k <= min_k /\ k <= Len(scores)
    /\ window_size + forecast_length <= Len(DTindex)
    /\ \E j \in DOMAIN test[forecast_length] : test[forecast_length][j] = Len(DTindex) - 1

IsSeasonalityFeature == fn = "create_seasonality_feature"

\* the seasonalities create_seasonality_feature does not recognize: not a
\* number, not a calendar-part name, not an enumerated scheme name
UnknownSeasonality ==
    /\ ~is_number(datepart_method)
    /\ datepart_method \notin datepart_components
    /\ datepart_method \notin date_part_methods

\* C26: create_seasonality_feature called with a seasonality it does not
\* recognize ends with an exception; it never returns a value to the caller.
C26_UnknownSeasonalityRaises ==
    (IsSeasonalityFeature /\ UnknownSeasonality /\ pc # "call") =>
        /\ pc = "raised"
        /\ test = None

\* the number of historical rows the mask leaves unflagged
Unmasked == Cardinality({h \in DOMAIN nan_array : ~nan_array[h]})

\* C27: in seasonal_independent_match with a mask that leaves at least k
\* historical rows unflagged, no returned offset is the index of a flagged
\* row, for every future row, metric and full_sort.
C27_MaskedNeverSelected ==
    (IsIndependent /\ Returned /\ nan_array # None) =>
        (Unmasked >= k =>
            \A j \in DOMAIN test : \A r \in DOMAIN test[j] :
                /\ test[j][r] \in 0..(Len(DTindex) - 1)
                /\ ~nan_array[test[j][r] + 1])

\* reached: the flagged row has the features of the future row (unflagged it
\* would score 0), the unflagged row does not, and the unflagged row is returned
C27_Witness ==
    /\ IsIndependent /\ Returned /\ nan_array # None /\ Unmasked >= k
    /\ \E h \in DOMAIN nan_array, g \in DOMAIN nan_array :
          /\ nan_array[h] /\ ~nan_array[g]
          /\ date_part_row(DTindex[h], datepart_method)
               = date_part_row(DTindex_future[1], datepart_method)
          /\ date_part_row(DTindex[g], datepart_method)
               # date_part_row(DTindex_future[1], datepart_method)
          /\ test[1][1] = g - 1

\* C28: in seasonal_window_match with k > 5, in every column of the offsets
\* the step-0 cell is not -1, a cell that is -1 is followed only by cells that
\* are -1, the cells that are not -1 are consecutive integers, and no cell is
\* -1 when window_size >= forecast_length.
C28_SentinelSuffix ==
    (IsWindow /\ Returned /\ k > min_k) =>
        \A j \in DOMAIN test[1] :
            /\ test[1][j] # -1
            /\ \A s \in 1..(forecast_length - 1) :
                  /\ test[s][j] = -1 => test[s + 1][j] = -1
                  /\ test[s + 1][j] # -1 => test[s + 1][j] = test[s][j] + 1
            /\ window_size >= forecast_length =>
                  \A s \in 1..forecast_length : test[s][j] # -1

\* reached: a large-k call with window_size < forecast_length in which one
\* column ends with -1 after the last index of the history and another column
\* has no -1
C28_Witness ==
    /\ IsWindow /\ Returned /\ k > min_k /\ window_size < forecast_length
    /\ \E j \in DOMAIN test[1] :
          /\ test[1][j] = Len(DTindex) - 1
          /\ test[forecast_length][j] = -1
    /\ \E j \in DOMAIN test[1] : test[forecast_length][j] = test[1][j] + forecast_length - 1

\* the one-hot single calendar-part schemes
OneHotComponents == {"dayofweek", "month", "day", "weekdayofmonth", "hour", "quarter",
                     "dayofyear", "weekdaymonthofyear", "dayofmonthofyear"}

\* the number of cells of a row that are 1
Ones(row) == Cardinality({c \in DOMAIN row : row[c] = 1})

\* C29: for every one-hot single calendar-part scheme and every timestamp the
\* encoded row contains exactly one 1 and 0 elsewhere (the value of the
\* calendar part lies inside the category domain of the scheme).
C29_ExactlyOneHot ==
    ((IsDatePart \/ IsSeasonalityFeature) /\ Returned /\ datepart_method \in OneHotComponents) =>
        \A i \in DOMAIN test :
            /\ Ones(test[i]) = 1
            /\ \A c \in DOMAIN test[i] : test[i][c] \in {0, 1}

\* the column of the 1 in a one-hot row (0 when the row has none)
HotColumn(row) == IF \E c \in DOMAIN row : row[c] = 1
                  THEN CHOOSE c \in DOMAIN row : row[c] = 1 ELSE 0

\* C30: "dayofmonthofyear" has one column per calendar day of the reference
\* leap year (366), and two timestamps are encoded in the same column only if
\* they have the same month and the same day of month.
C30_DayOfMonthOfYearInjective ==
    (IsDatePart /\ Returned /\ datepart_method = "dayofmonthofyear") =>
        /\ Len(columns) = 366
        /\ \A i \in DOMAIN test : Len(test[i]) = 366
        /\ \A i \in DOMAIN test, j \in DOMAIN test :
              HotColumn(test[i]) = HotColumn(test[j]) =>
                  /\ month(DTindex[i]) = month(DTindex[j])
                  /\ day(DTindex[i]) = day(DTindex[j])

====
